---- MODULE Spec2Model ----
(***************************************************************************)
(* Model of lipid_gene_sankey_app.py: the pipeline that turns an uploaded  *)
(* transcriptome table and an uploaded lipid table into the node list, the *)
(* edge list and the summary of a Sankey diagram.                          *)
(*                                                                         *)
(* Representation.                                                         *)
(*  - A Python string is the tuple of its characters, so that equality,    *)
(*    str.startswith, str.split(' '), the substring test `in` and the      *)
(*    code-point order used by groupby's sort are all computed.            *)
(*  - A missing value of a CSV cell (NaN after read_csv) is the empty      *)
(*    tuple: read_csv turns an empty cell into NaN.                        *)
(*  - A number of the linear domain (a cell, a mean) is the fraction       *)
(*    <<n, d>> with d > 0; NaN is <<0, 0>>.                                *)
(*  - A number of the logarithmic domain (a log2 fold change, an edge      *)
(*    weight) is stored as the fraction <<p, q>> whose base-2 logarithm it *)
(*    is: v = log2(p/q).  v > 0 is p > q, |v| swaps p and q when p < q,    *)
(*    v > t is p > 2^t * q, v + w multiplies the fractions, and the        *)
(*    integer 1 is <<2, 1>>.  NaN is <<0, 0>>.  Fractions are kept in      *)
(*    lowest terms, so equal values are equal tuples.                      *)
(***************************************************************************)
EXTENDS Integers, Sequences, FiniteSets, TLC

VARIABLES pc, error,
          transcriptome_file, lipid_file,
          gene_fc_threshold, lipid_fc_threshold, top_genes_count,
          white_gene_prefix, white_lipid_prefix,
          transcriptome, lipid_data, lipid_id_dtype,
          beige_gene_cols, white_gene_cols, beige_lipid_cols, white_lipid_cols,
          sig_genes, sig_lipids, top_genes,
          flows, flows_agg, all_nodes, node_dict, node_colors, summary

inputs == <<transcriptome_file, lipid_file, gene_fc_threshold, lipid_fc_threshold,
            top_genes_count, white_gene_prefix, white_lipid_prefix>>
frames == <<transcriptome, lipid_data, lipid_id_dtype>>
cols == <<beige_gene_cols, white_gene_cols, beige_lipid_cols, white_lipid_cols>>
selection == <<sig_genes, sig_lipids, top_genes>>
graph == <<flows, flows_agg, all_nodes, node_dict, node_colors>>
vars == <<pc, error, inputs, frames, cols, selection, graph, summary>>

-----------------------------------------------------------------------------
(* String literals of the source. *)

s_Class == <<"C", "l", "a", "s", "s">>
s_Label == <<"L", "a", "b", "e", "l">>
s_Metabolite == <<"M", "e", "t", "a", "b", "o", "l", "i", "t", "e">>
s_Upregulated == <<"U", "p", "r", "e", "g", "u", "l", "a", "t", "e", "d">>
s_Downregulated == <<"D", "o", "w", "n", "r", "e", "g", "u", "l", "a", "t", "e", "d">>
s_White == <<"_", "W", "h", "i", "t", "e">>
s_Upregulated_White == s_Upregulated \o s_White
s_Downregulated_White == s_Downregulated \o s_White
s_PC == <<"P", "C">>
s_LPC == <<"L", "P", "C">>
s_PE == <<"P", "E">>
s_LPE == <<"L", "P", "E">>
s_DG == <<"D", "G">>
s_TG == <<"T", "G">>
s_SM == <<"S", "M">>
s_CAR == <<"C", "A", "R">>

gene_id_col == <<"S", "a", "m", "p", "l", "e", "I", "D">>
lipid_id_col == s_Metabolite
beige_gene_prefix == <<"H", "a", "n", "n", "a", "h", "_", "B", "e", "i", "g", "e", "_">>
beige_lipid_prefix == <<"B", "e", "i", "g", "e", "_">>
default_white_gene_prefix == <<"H", "a", "n", "n", "a", "h", "_", "W", "h", "i", "t", "e", "_">>
default_white_lipid_prefix == <<"W", "h", "i", "t", "e", "_">>

warm_red == "rgba(255, 99, 71, 0.8)"
cool_blue == "rgba(70, 130, 180, 0.8)"
orange == "rgba(255, 165, 0, 0.8)"
green == "rgba(34, 139, 34, 0.8)"
purple == "rgba(148, 0, 211, 0.8)"
neutral_gray == "rgba(128, 128, 128, 0.8)"

-----------------------------------------------------------------------------
(* Python strings. *)

\* The characters the model's strings use, in ascending code-point order.
Codepoints ==
  <<" ", "0", "1", "2", "3", "4", "5", "6", "7", "8", "9", ":",
    "A", "B", "C", "D", "E", "F", "G", "H", "I", "J", "K", "L", "M",
    "N", "O", "P", "Q", "R", "S", "T", "U", "V", "W", "X", "Y", "Z", "_",
    "a", "b", "c", "d", "e", "f", "g", "h", "i", "j", "k", "l", "m",
    "n", "o", "p", "q", "r", "s", "t", "u", "v", "w", "x", "y", "z">>

Ord(c) == CHOOSE i \in 1..Len(Codepoints) : Codepoints[i] = c

Digits == <<"0", "1", "2", "3", "4", "5", "6", "7", "8", "9">>

IsDigit(c) == \E i \in 1..Len(Digits) : Digits[i] = c

DigitValue(c) == (CHOOSE i \in 1..Len(Digits) : Digits[i] = c) - 1

\* a < b for two strings: the first differing character decides, a proper
\* prefix is smaller.
RECURSIVE StrLess(_, _)
StrLess(a, b) ==
  IF b = <<>> THEN FALSE
  ELSE IF a = <<>> THEN TRUE
  ELSE IF Head(a) = Head(b) THEN StrLess(Tail(a), Tail(b))
  ELSE Ord(Head(a)) < Ord(Head(b))

\* c.startswith(prefix)
StartsWith(c, prefix) ==
  /\ Len(c) >= Len(prefix)
  /\ SubSeq(c, 1, Len(prefix)) = prefix

\* sub in s
Contains(s, sub) ==
  \E i \in 1..(Len(s) - Len(sub) + 1) : SubSeq(s, i, i + Len(sub) - 1) = sub

\* s.split(' ')[0]: the characters before the first space.
RECURSIVE SplitFirst(_)
SplitFirst(s) ==
  IF s = <<>> \/ Head(s) = " " THEN <<>>
  ELSE <<Head(s)>> \o SplitFirst(Tail(s))

-----------------------------------------------------------------------------
(* Numbers. *)

NaN == <<0, 0>>

IsNaN(x) == x = NaN

RECURSIVE Gcd(_, _)
Gcd(a, b) == IF b = 0 THEN a ELSE Gcd(b, a % b)

Reduce(x) ==
  IF IsNaN(x) THEN NaN
  ELSE LET g == Gcd(x[1], x[2]) IN <<x[1] \div g, x[2] \div g>>

RECURSIVE Pow2(_)
Pow2(k) == IF k <= 0 THEN 1 ELSE 2 * Pow2(k - 1)

\* The decimal value of a string of digits.
RECURSIVE DecimalValue(_, _)
DecimalValue(s, acc) ==
  IF s = <<>> THEN acc
  ELSE DecimalValue(Tail(s), 10 * acc + DigitValue(Head(s)))

\* pd.to_numeric(cell, errors='coerce') on the cells of the model: a string
\* of digits is its value, an empty cell and any other text are NaN.
ToNumeric(cell) ==
  IF cell # <<>> /\ \A i \in 1..Len(cell) : IsDigit(cell[i])
  THEN <<DecimalValue(cell, 0), 1>>
  ELSE NaN

RatAdd(x, y) == Reduce(<<x[1] * y[2] + y[1] * x[2], x[2] * y[2]>>)

RECURSIVE RatSum(_)
RatSum(xs) == IF xs = <<>> THEN <<0, 1>> ELSE RatAdd(Head(xs), RatSum(Tail(xs)))

\* DataFrame.mean(axis=1) for one row: the mean of the values that are not
\* NaN, NaN when there is none (also when no column was selected).
Mean(values) ==
  LET present == SelectSeq(values, LAMBDA v : ~IsNaN(v))
      total == RatSum(present)
  IN IF present = <<>> THEN NaN
     ELSE Reduce(<<total[1], total[2] * Len(present)>>)

\* np.log2((white_mean + 1) / (beige_mean + 1)), as the fraction whose
\* logarithm it is.  The means of the model are never negative.
Log2FC(white_mean, beige_mean) ==
  IF IsNaN(white_mean) \/ IsNaN(beige_mean) THEN NaN
  ELSE Reduce(<<(white_mean[1] + white_mean[2]) * beige_mean[2],
                (beige_mean[1] + beige_mean[2]) * white_mean[2]>>)

\* abs(v)
Abs(v) == IF v[1] < v[2] THEN <<v[2], v[1]>> ELSE v

\* v > t for an integer t; False when v is NaN.
GreaterThan(v, t) ==
  /\ ~IsNaN(v)
  /\ IF t >= 0 THEN v[1] > Pow2(t) * v[2] ELSE v[1] * Pow2(-t) > v[2]

\* v < 0; False when v is NaN.
Negative(v) == ~IsNaN(v) /\ v[1] < v[2]

\* v < w for two values that are not NaN.
Less(v, w) == v[1] * w[2] < w[1] * v[2]

\* v + w
Plus(v, w) ==
  IF IsNaN(v) \/ IsNaN(w) THEN NaN ELSE Reduce(<<v[1] * w[1], v[2] * w[2]>>)

\* The integer 1 of an edge's 'value'.
One == <<2, 1>>

Zero == <<1, 1>>

-----------------------------------------------------------------------------
(* Data frames: the column names and the rows, each row with its index    *)
(* label and its cells in column order.  A column the code adds to a frame *)
(* ('Beige_Mean', 'Gene_log2FC', 'Direction', ...) is a field of the row.  *)

ColPos(columns, name) == CHOOSE i \in 1..Len(columns) : columns[i] = name

Cell(df, r, name) == r.cells[ColPos(df.columns, name)]

\* df[mask] is SelectSeq on the rows: the rows that pass, in their order, with
\* their index labels.
WithRows(df, rows) == [df EXCEPT !.rows = rows]

\* pd.read_csv: a RangeIndex from 0, the cells as read.
ReadCsv(file) ==
  [columns |-> file.columns,
   rows |-> [i \in 1..Len(file.rows) |-> [index |-> i - 1, cells |-> file.rows[i]]]]

\* The dtype read_csv infers for a column of the model: object as soon as a
\* cell holds text (or the file has no row), a numeric dtype when every cell
\* is empty or a number.
InferDtype(file, name) ==
  LET k == ColPos(file.columns, name) IN
  IF /\ file.rows # <<>>
     /\ \A i \in 1..Len(file.rows) :
          file.rows[i][k] = <<>> \/ ~IsNaN(ToNumeric(file.rows[i][k]))
  THEN "float64" ELSE "object"

\* Series.notna() for a cell.
NotNa(cell) == cell # <<>>

CleanTranscriptome(df) ==
  LET step1 == SelectSeq(df.rows, LAMBDA r : Cell(df, r, gene_id_col) # s_Class)
  IN WithRows(df, SelectSeq(step1, LAMBDA r : NotNa(Cell(df, r, gene_id_col))))

\* The lipid cleaning without its second filter.
CleanLipidDataLabelOnly(df) ==
  LET step1 == SelectSeq(df.rows, LAMBDA r : Cell(df, r, lipid_id_col) # s_Label)
  IN WithRows(df, SelectSeq(step1, LAMBDA r : NotNa(Cell(df, r, lipid_id_col))))

CleanLipidData(df) ==
  LET step1 == SelectSeq(df.rows, LAMBDA r : Cell(df, r, lipid_id_col) # s_Label)
      step2 == SelectSeq(step1, LAMBDA r : Cell(df, r, lipid_id_col) # s_Metabolite)
  IN WithRows(df, SelectSeq(step2, LAMBDA r : NotNa(Cell(df, r, lipid_id_col))))

\* [c for c in df.columns if c.startswith(prefix)]
PrefixCols(columns, prefix) == SelectSeq(columns, LAMBDA c : StartsWith(c, prefix))

\* The values of one row in the given columns after pd.to_numeric.
NumericValues(df, r, names) ==
  [k \in 1..Len(names) |-> ToNumeric(Cell(df, r, names[k]))]

ProcessGenes(df, bcols, wcols) ==
  [df EXCEPT !.rows =
     [i \in 1..Len(df.rows) |->
        LET r == df.rows[i]
            bm == Mean(NumericValues(df, r, bcols))
            wm == Mean(NumericValues(df, r, wcols))
        IN [index |-> r.index, cells |-> r.cells,
            Beige_Mean |-> bm, White_Mean |-> wm,
            Gene_log2FC |-> Log2FC(wm, bm)]]]

ProcessLipids(df, bcols, wcols) ==
  [df EXCEPT !.rows =
     [i \in 1..Len(df.rows) |->
        LET r == df.rows[i]
            bm == Mean(NumericValues(df, r, bcols))
            wm == Mean(NumericValues(df, r, wcols))
        IN [index |-> r.index, cells |-> r.cells,
            Beige_Mean |-> bm, White_Mean |-> wm,
            Lipid_log2FC |-> Log2FC(wm, bm),
            Lipid_Class |-> SplitFirst(Cell(df, r, lipid_id_col))]]]

\* abs(x) >= threshold
SignificantOrEqual(x, threshold) ==
  GreaterThan(Abs(x), threshold) \/ (~IsNaN(x) /\ Abs(x) = <<Pow2(threshold), 1>>)

\* abs(x) > threshold
Significant(x, threshold) == GreaterThan(Abs(x), threshold)

\* lambda x: 'Upregulated_White' if x > 0 else 'Downregulated_White'
Direction(x) ==
  IF GreaterThan(x, 0) THEN s_Upregulated_White ELSE s_Downregulated_White

SigGenes(df, threshold) ==
  LET kept == SelectSeq(df.rows, LAMBDA r : Significant(r.Gene_log2FC, threshold))
  IN WithRows(df, [i \in 1..Len(kept) |->
                     kept[i] @@ [Direction |-> Direction(kept[i].Gene_log2FC)]])

SigLipids(df, threshold) ==
  LET kept == SelectSeq(df.rows, LAMBDA r : Significant(r.Lipid_log2FC, threshold))
  IN WithRows(df, [i \in 1..Len(kept) |->
                     kept[i] @@ [Direction |-> Direction(kept[i].Lipid_log2FC)]])

Remove(seq, i) == SubSeq(seq, 1, i - 1) \o SubSeq(seq, i + 1, Len(seq))

\* nlargest with keep='last': of equal values the later row comes first.
RECURSIVE NLargestKeepLast(_, _)
NLargestKeepLast(n, rows) ==
  IF n <= 0 \/ rows = <<>> THEN <<>>
  ELSE LET i == CHOOSE i \in 1..Len(rows) :
                  /\ \A j \in 1..Len(rows) :
                       ~Less(rows[i].Gene_log2FC, rows[j].Gene_log2FC)
                  /\ \A j \in (i + 1)..Len(rows) :
                       Less(rows[j].Gene_log2FC, rows[i].Gene_log2FC)
       IN <<rows[i]>> \o NLargestKeepLast(n - 1, Remove(rows, i))

\* DataFrame.nlargest(n, 'Gene_log2FC') (keep='first') on rows whose value is
\* not NaN: descending by value, equal values in their row order, at most n
\* rows, none when n <= 0.
RECURSIVE NLargest(_, _)
NLargest(n, rows) ==
  IF n <= 0 \/ rows = <<>> THEN <<>>
  ELSE LET i == CHOOSE i \in 1..Len(rows) :
                  /\ \A j \in 1..Len(rows) :
                       ~Less(rows[i].Gene_log2FC, rows[j].Gene_log2FC)
                  /\ \A j \in 1..(i - 1) :
                       Less(rows[j].Gene_log2FC, rows[i].Gene_log2FC)
       IN <<rows[i]>> \o NLargest(n - 1, Remove(rows, i))

\* DataFrame.nsmallest(n, 'Gene_log2FC') (keep='first'): ascending by value.
RECURSIVE NSmallest(_, _)
NSmallest(n, rows) ==
  IF n <= 0 \/ rows = <<>> THEN <<>>
  ELSE LET i == CHOOSE i \in 1..Len(rows) :
                  /\ \A j \in 1..Len(rows) :
                       ~Less(rows[j].Gene_log2FC, rows[i].Gene_log2FC)
                  /\ \A j \in 1..(i - 1) :
                       Less(rows[i].Gene_log2FC, rows[j].Gene_log2FC)
       IN <<rows[i]>> \o NSmallest(n - 1, Remove(rows, i))

\* The half rounded up.
GenesPerDirectionRoundedUp(count) == (count + 1) \div 2

\* genes_per_direction = top_genes_count // 2
GenesPerDirection(count) == count \div 2

TopGenesUp(sig, count) ==
  NLargest(GenesPerDirection(count),
           SelectSeq(sig.rows, LAMBDA r : r.Direction = s_Upregulated_White))

TopGenesDown(sig, count) ==
  NSmallest(GenesPerDirection(count),
            SelectSeq(sig.rows, LAMBDA r : r.Direction = s_Downregulated_White))

\* pd.concat([top_genes_up, top_genes_down])
TopGenes(sig, count) ==
  WithRows(sig, TopGenesUp(sig, count) \o TopGenesDown(sig, count))

-----------------------------------------------------------------------------
(* Flow graph. *)

LipidFlow(r) == [source |-> r.Lipid_Class, target |-> r.Direction, value |-> One]

\* The gene flow with the signed fold change as its value.
GeneFlowSigned(df, r) ==
  [source |-> r.Direction, target |-> Cell(df, r, gene_id_col),
   value |-> r.Gene_log2FC]

GeneFlow(df, r) ==
  [source |-> r.Direction, target |-> Cell(df, r, gene_id_col),
   value |-> Abs(r.Gene_log2FC)]

\* The list the two loops append to: the lipid flows, then the gene flows.
BuildFlows(lipids, genes) ==
  [i \in 1..Len(lipids.rows) |-> LipidFlow(lipids.rows[i])]
    \o [i \in 1..Len(genes.rows) |-> GeneFlow(genes, genes.rows[i])]

KeyOf(f) == <<f.source, f.target>>

\* The order of groupby's sorted group keys: by source, then by target.
KeyLess(a, b) == StrLess(a[1], b[1]) \/ (a[1] = b[1] /\ StrLess(a[2], b[2]))

RECURSIVE SortKeys(_)
SortKeys(S) ==
  IF S = {} THEN <<>>
  ELSE LET m == CHOOSE m \in S : \A k \in S \ {m} : KeyLess(m, k)
       IN <<m>> \o SortKeys(S \ {m})

RECURSIVE SumValues(_)
SumValues(fs) == IF fs = <<>> THEN Zero ELSE Plus(Head(fs).value, SumValues(Tail(fs)))

\* flows_df.groupby(['source', 'target'])['value'].sum().reset_index() on a
\* frame that has the columns: one row per distinct pair, in sorted order.
GroupBySum(fs) ==
  LET keys == SortKeys({KeyOf(fs[i]) : i \in 1..Len(fs)})
  IN [k \in 1..Len(keys) |->
        [source |-> keys[k][1], target |-> keys[k][2],
         value |-> SumValues(SelectSeq(fs, LAMBDA f : KeyOf(f) = keys[k]))]]

\* Series.unique(): the distinct values in order of first appearance.
RECURSIVE Unique(_)
Unique(seq) ==
  IF seq = <<>> THEN <<>>
  ELSE LET front == Unique(SubSeq(seq, 1, Len(seq) - 1))
           last == seq[Len(seq)]
       IN IF \E i \in 1..Len(front) : front[i] = last THEN front
          ELSE Append(front, last)

\* The targets concatenated before the sources.
AllNodesTargetsFirst(agg) ==
  Unique([i \in 1..Len(agg) |-> agg[i].target] \o [i \in 1..Len(agg) |-> agg[i].source])

\* list(pd.concat([flows_agg['source'], flows_agg['target']]).unique())
AllNodes(agg) ==
  Unique([i \in 1..Len(agg) |-> agg[i].source] \o [i \in 1..Len(agg) |-> agg[i].target])

\* {node: idx for idx, node in enumerate(all_nodes)}
NodeDict(nodes) ==
  [n \in {nodes[i] : i \in 1..Len(nodes)} |->
     (CHOOSE i \in 1..Len(nodes) :
        nodes[i] = n /\ \A j \in (i + 1)..Len(nodes) : nodes[j] # n) - 1]

IndexFlows(agg, dict) ==
  [i \in 1..Len(agg) |->
     [source |-> agg[i].source, target |-> agg[i].target, value |-> agg[i].value,
      source_idx |-> dict[agg[i].source], target_idx |-> dict[agg[i].target]]]

\* The direction rules with == in place of the substring test.
NodeColorExact(node) ==
  IF node = s_Upregulated THEN warm_red
  ELSE IF node = s_Downregulated THEN cool_blue
  ELSE IF node \in {s_PC, s_LPC, s_PE, s_LPE} THEN orange
  ELSE IF node \in {s_DG, s_TG} THEN green
  ELSE IF node \in {s_SM, s_CAR} THEN purple
  ELSE neutral_gray

NodeColor(node) ==
  IF Contains(node, s_Upregulated) THEN warm_red
  ELSE IF Contains(node, s_Downregulated) THEN cool_blue
  ELSE IF node \in {s_PC, s_LPC, s_PE, s_LPE} THEN orange
  ELSE IF node \in {s_DG, s_TG} THEN green
  ELSE IF node \in {s_SM, s_CAR} THEN purple
  ELSE neutral_gray

NodeColors(nodes) == [i \in 1..Len(nodes) |-> NodeColor(nodes[i])]

\* len(frame[frame[col] > 0]) and len(frame[frame[col] < 0])
UpCount(values) == Len(SelectSeq(values, LAMBDA v : GreaterThan(v, 0)))

DownCount(values) == Len(SelectSeq(values, LAMBDA v : Negative(v)))

GeneValues(df) == [i \in 1..Len(df.rows) |-> df.rows[i].Gene_log2FC]

LipidValues(df) == [i \in 1..Len(df.rows) |-> df.rows[i].Lipid_log2FC]

\* The summary with the displayed genes counted as the significant ones.
SummaryOfDisplayed(genes, sgenes, lipids, slipids) ==
  [Total_Genes |-> Len(genes.rows),
   Significant_Genes |-> Len(top_genes.rows),
   Genes_Up_White |-> UpCount(GeneValues(sgenes)),
   Genes_Down_White |-> DownCount(GeneValues(sgenes)),
   Total_Lipids |-> Len(lipids.rows),
   Significant_Lipids |-> Len(slipids.rows),
   Lipids_Up_White |-> UpCount(LipidValues(slipids)),
   Lipids_Down_White |-> DownCount(LipidValues(slipids))]

Summary(genes, sgenes, lipids, slipids) ==
  [Total_Genes |-> Len(genes.rows),
   Significant_Genes |-> Len(sgenes.rows),
   Genes_Up_White |-> UpCount(GeneValues(sgenes)),
   Genes_Down_White |-> DownCount(GeneValues(sgenes)),
   Total_Lipids |-> Len(lipids.rows),
   Significant_Lipids |-> Len(slipids.rows),
   Lipids_Up_White |-> UpCount(LipidValues(slipids)),
   Lipids_Down_White |-> DownCount(LipidValues(slipids))]

-----------------------------------------------------------------------------
(* The uploaded files and the sidebar's values.                            *)
(* The thresholds are integers the sliders offer; the count ranges over    *)
(* 0..MaxTopGenes, so that nlargest and nsmallest cut tables of a few rows. *)

MaxGeneRows == 3
MaxLipidRows == 2
MaxTopGenes == 4

Thresholds == {1, 2}

gene_columns ==
  <<gene_id_col,
    beige_gene_prefix \o <<"1">>,
    default_white_gene_prefix \o <<"1">>>>

lipid_columns ==
  <<lipid_id_col,
    beige_lipid_prefix \o <<"1">>,
    default_white_lipid_prefix \o <<"1">>,
    default_white_lipid_prefix \o <<"2">>>>

\* Rows of a transcriptome file: identifier, one beige cell, one white cell.
GeneRowPool ==
  { << s_Class, <<"0">>, <<"7">> >>,
    << s_Label, <<"3">>, <<"0">> >>,
    << <<"G", "1">>, <<"0">>, <<"7">> >>,
    << <<"G", "1">>, <<"0">>, <<"3">> >>,
    << <<"G", "2">>, <<"7">>, <<"0">> >>,
    << <<"G", "2">>, <<"x">>, <<"1">> >>,
    << s_Upregulated_White, <<"0">>, <<"7">> >> }

\* Rows of a lipid file: identifier, one beige cell, two white cells.
LipidRowPool ==
  { << <<>>, <<"1">>, <<"1">>, <<"1">> >>,
    << s_Label, <<"0">>, <<"7">>, <<"7">> >>,
    << s_Metabolite, <<"0">>, <<"7">>, <<"7">> >>,
    << s_Class, <<"0">>, <<"7">>, <<"7">> >>,
    << s_PC \o <<" ", "1", "6", ":", "0">>, <<"7">>, <<"0">>, <<"0">> >>,
    << s_PC \o <<" ", "1", "8", ":", "1">>, <<"3">>, <<"0">>, <<"x">> >>,
    << s_TG \o <<" ", "1">>, <<"0">>, <<"3">>, <<>> >>,
    << s_SM, <<"0">>, <<"7">>, <<"7">> >>,
    << s_LPE \o <<" ", "1">>, <<"1">>, <<"0">>, <<"1">> >>,
    << s_CAR \o <<" ", "2">>, <<"x">>, <<"1">>, <<"1">> >>,
    << s_Upregulated_White \o <<" ", "x">>, <<"0">>, <<"7">>, <<"7">> >>,
    << s_Upregulated_White \o <<" ", "y">>, <<"7">>, <<"0">>, <<"0">> >> }

SeqUpTo(S, n) == UNION {[1..k -> S] : k \in 0..n}

GeneFile(rows) == [columns |-> gene_columns, rows |-> rows]

LipidFile(rows) == [columns |-> lipid_columns, rows |-> rows]

GeneFiles == {GeneFile(rows) : rows \in SeqUpTo(GeneRowPool, MaxGeneRows)}

LipidFiles == {LipidFile(rows) : rows \in SeqUpTo(LipidRowPool, MaxLipidRows)}

FewGeneFiles ==
  { GeneFile(<<>>),
    GeneFile(<< << <<"G", "1">>, <<"0">>, <<"7">> >>,
                << <<"G", "2">>, <<"7">>, <<"0">> >> >>),
    GeneFile(<< << s_Downregulated_White, <<"0">>, <<"7">> >> >>),
    GeneFile(<< << <<>>, <<"1">>, <<"1">> >>,
                << s_Class, <<"0">>, <<"7">> >>,
                << s_Label, <<"0">>, <<"7">> >>,
                << s_Upregulated \o <<"_">> \o s_Downregulated, <<"7">>, <<"0">> >> >>) }

OneLipidFile ==
  LipidFile(<< << s_PC \o <<" ", "1", "6", ":", "0">>, <<"7">>, <<"0">>, <<"0">> >> >>)

FewLipidFiles == {LipidFile(<<>>), OneLipidFile}

WhiteGenePrefixes == {default_white_gene_prefix, <<"X", "_">>}

WhiteLipidPrefixes == {default_white_lipid_prefix, <<"X", "_">>}

Unset == <<>>

\* Every transcriptome file of the bound, with one lipid file.
InitGenes ==
  /\ transcriptome_file \in GeneFiles
  /\ lipid_file = OneLipidFile
  /\ gene_fc_threshold \in Thresholds
  /\ lipid_fc_threshold = 1
  /\ top_genes_count \in 0..MaxTopGenes
  /\ white_gene_prefix = default_white_gene_prefix
  /\ white_lipid_prefix = default_white_lipid_prefix

\* Every lipid file of the bound, with a few transcriptome files.
InitLipids ==
  /\ transcriptome_file \in FewGeneFiles
  /\ lipid_file \in LipidFiles
  /\ gene_fc_threshold = 1
  /\ lipid_fc_threshold \in Thresholds
  /\ top_genes_count = MaxTopGenes
  /\ white_gene_prefix = default_white_gene_prefix
  /\ white_lipid_prefix = default_white_lipid_prefix

\* Prefixes that match no column.
InitPrefixes ==
  /\ transcriptome_file \in FewGeneFiles
  /\ lipid_file \in FewLipidFiles
  /\ gene_fc_threshold = 1
  /\ lipid_fc_threshold = 1
  /\ top_genes_count = MaxTopGenes
  /\ white_gene_prefix \in WhiteGenePrefixes
  /\ white_lipid_prefix \in WhiteLipidPrefixes

Init ==
  /\ pc = "start"
  /\ error = ""
  /\ InitGenes \/ InitLipids \/ InitPrefixes
  /\ transcriptome = Unset
  /\ lipid_data = Unset
  /\ lipid_id_dtype = ""
  /\ beige_gene_cols = Unset
  /\ white_gene_cols = Unset
  /\ beige_lipid_cols = Unset
  /\ white_lipid_cols = Unset
  /\ sig_genes = Unset
  /\ sig_lipids = Unset
  /\ top_genes = Unset
  /\ flows = Unset
  /\ flows_agg = Unset
  /\ all_nodes = Unset
  /\ node_dict = Unset
  /\ node_colors = Unset
  /\ summary = Unset

-----------------------------------------------------------------------------
(* The script, one action per block. *)

\* Lines 35-51: read both files, clean them, find the sample columns.
LoadData ==
  /\ pc = "start"
  /\ transcriptome' = CleanTranscriptome(ReadCsv(transcriptome_file))
  /\ lipid_data' = CleanLipidData(ReadCsv(lipid_file))
  /\ lipid_id_dtype' = InferDtype(lipid_file, lipid_id_col)
  /\ beige_gene_cols' = PrefixCols(transcriptome_file.columns, beige_gene_prefix)
  /\ white_gene_cols' = PrefixCols(transcriptome_file.columns, white_gene_prefix)
  /\ beige_lipid_cols' = PrefixCols(lipid_file.columns, beige_lipid_prefix)
  /\ white_lipid_cols' = PrefixCols(lipid_file.columns, white_lipid_prefix)
  /\ pc' = "loaded"
  /\ UNCHANGED <<error, inputs, selection, graph, summary>>

\* Lines 65-82, after the button is pressed: the means and the fold changes.
\* Line 82's .str accessor raises AttributeError on a column that is not of
\* dtype object.
ComputeFoldChanges ==
  /\ pc = "loaded"
  /\ transcriptome' = ProcessGenes(transcriptome, beige_gene_cols, white_gene_cols)
  /\ lipid_data' = ProcessLipids(lipid_data, beige_lipid_cols, white_lipid_cols)
  /\ IF lipid_id_dtype = "object"
     THEN pc' = "computed" /\ error' = error
     ELSE pc' = "error" /\ error' = "AttributeError"
  /\ UNCHANGED <<inputs, lipid_id_dtype, cols, selection, graph, summary>>

\* Lines 85-89.
FilterSignificant ==
  /\ pc = "computed"
  /\ sig_genes' = SigGenes(transcriptome, gene_fc_threshold)
  /\ sig_lipids' = SigLipids(lipid_data, lipid_fc_threshold)
  /\ pc' = "filtered"
  /\ UNCHANGED <<error, inputs, frames, cols, top_genes, graph, summary>>

\* Lines 92-95.
SelectTopGenes ==
  /\ pc = "filtered"
  /\ top_genes' = TopGenes(sig_genes, top_genes_count)
  /\ pc' = "selected"
  /\ UNCHANGED <<error, inputs, frames, cols, sig_genes, sig_lipids, graph, summary>>

\* Lines 98-106: the flows and their aggregation.  A DataFrame built from an
\* empty list has no column, and groupby(['source', 'target']) raises KeyError.
AggregateFlows ==
  /\ pc = "selected"
  /\ flows' = BuildFlows(sig_lipids, top_genes)
  /\ IF flows' # <<>>
     THEN /\ flows_agg' = GroupBySum(flows')
          /\ pc' = "aggregated"
          /\ error' = error
     ELSE /\ flows_agg' = flows_agg
          /\ pc' = "error"
          /\ error' = "KeyError"
  /\ UNCHANGED <<inputs, frames, cols, selection, all_nodes, node_dict, node_colors,
                 summary>>

\* Lines 109-113.
CreateNodes ==
  /\ pc = "aggregated"
  /\ all_nodes' = AllNodes(flows_agg)
  /\ node_dict' = NodeDict(all_nodes')
  /\ flows_agg' = IndexFlows(flows_agg, node_dict')
  /\ pc' = "nodes"
  /\ UNCHANGED <<error, inputs, frames, cols, selection, flows, node_colors, summary>>

\* Lines 116-129.
ColorNodes ==
  /\ pc = "nodes"
  /\ node_colors' = NodeColors(all_nodes)
  /\ pc' = "colored"
  /\ UNCHANGED <<error, inputs, frames, cols, selection, flows, flows_agg, all_nodes,
                 node_dict, summary>>

\* Lines 132-170: the figure is drawn from all_nodes, node_colors and
\* flows_agg as they are; the summary is computed.
Summarise ==
  /\ pc = "colored"
  /\ summary' = Summary(transcriptome, sig_genes, lipid_data, sig_lipids)
  /\ pc' = "done"
  /\ UNCHANGED <<error, inputs, frames, cols, selection, graph>>

Next ==
  \/ LoadData
  \/ ComputeFoldChanges
  \/ FilterSignificant
  \/ SelectTopGenes
  \/ AggregateFlows
  \/ CreateNodes
  \/ ColorNodes
  \/ Summarise

Spec == Init /\ [][Next]_vars

-----------------------------------------------------------------------------
(* Properties. *)

Loaded == pc # "start"

Filtered ==
  \/ pc \in {"filtered", "selected", "aggregated", "nodes", "colored", "done"}
  \/ error = "KeyError"

Selected ==
  \/ pc \in {"selected", "aggregated", "nodes", "colored", "done"}
  \/ error = "KeyError"

Aggregated == pc \in {"aggregated", "nodes", "colored", "done"}

Indexed == pc \in {"nodes", "colored", "done"}

Colored == pc \in {"colored", "done"}

IndexSet(rows) == {rows[i].index : i \in 1..Len(rows)}

Elements(seq) == {seq[i] : i \in 1..Len(seq)}

Min(a, b) == IF a <= b THEN a ELSE b

\* |v| > t for a threshold t >= 0, v = log2(v[1] / v[2]): the ratio or its
\* inverse exceeds 2^t.
ExceedsMagnitude(v, t) ==
  /\ v # NaN
  /\ \/ v[1] > Pow2(t) * v[2]
     \/ v[2] > Pow2(t) * v[1]

\* v > 0
IsUp(v) == v # NaN /\ v[1] > v[2]

\* |v|
Magnitude(v) == IF v[2] > v[1] THEN <<v[2], v[1]>> ELSE v

\* C1: the magnitude filter returns exactly the rows whose log2fc is defined
\* and has |log2fc| > t, for the gene table and for the lipid table, and the
\* result for a larger threshold is a subset of the result for a smaller one.
C1_MagnitudeFilter ==
  Filtered =>
    /\ IndexSet(sig_genes.rows) =
         IndexSet(SelectSeq(transcriptome.rows,
                            LAMBDA r : ExceedsMagnitude(r.Gene_log2FC, gene_fc_threshold)))
    /\ IndexSet(sig_lipids.rows) =
         IndexSet(SelectSeq(lipid_data.rows,
                            LAMBDA r : ExceedsMagnitude(r.Lipid_log2FC, lipid_fc_threshold)))
    /\ Len(sig_genes.rows) = Cardinality(IndexSet(sig_genes.rows))
    /\ Len(sig_lipids.rows) = Cardinality(IndexSet(sig_lipids.rows))
    /\ \A s \in Elements(sig_genes.rows) :
         \E r \in Elements(transcriptome.rows) :
           r.index = s.index /\ r.cells = s.cells /\ r.Gene_log2FC = s.Gene_log2FC
    /\ \A s \in Elements(sig_lipids.rows) :
         \E r \in Elements(lipid_data.rows) :
           r.index = s.index /\ r.cells = s.cells /\ r.Lipid_log2FC = s.Lipid_log2FC
    /\ pc = "filtered" =>
         \A t1, t2 \in Thresholds :
           t1 < t2 =>
             /\ IndexSet(SigGenes(transcriptome, t2).rows)
                  \subseteq IndexSet(SigGenes(transcriptome, t1).rows)
             /\ IndexSet(SigLipids(lipid_data, t2).rows)
                  \subseteq IndexSet(SigLipids(lipid_data, t1).rows)

\* A gene table with an undefined fold change, a fold change whose magnitude
\* equals the threshold, and a row that passes.
C1_Witness ==
  /\ pc = "filtered"
  /\ \E r \in Elements(transcriptome.rows) : r.Gene_log2FC = NaN
  /\ \E r \in Elements(transcriptome.rows) :
       Magnitude(r.Gene_log2FC) = <<Pow2(gene_fc_threshold), 1>>
  /\ sig_genes.rows # <<>>
  /\ Len(sig_genes.rows) < Len(transcriptome.rows)

UpRows(rows) == SelectSeq(rows, LAMBDA r : IsUp(r.Gene_log2FC))

DownRows(rows) == SelectSeq(rows, LAMBDA r : ~IsUp(r.Gene_log2FC))

\* C2: the selected up rows are the min(N div 2, number of up rows) rows of
\* largest log2fc among the significant rows with log2fc > 0, the selected down
\* rows the min(N div 2, number of down rows) rows of smallest log2fc among the
\* other significant rows; of two rows with equal log2fc the earlier one is
\* preferred; nothing is padded.
C2_TopNSplit ==
  Selected =>
    LET k == top_genes_count \div 2
        ups == UpRows(sig_genes.rows)
        downs == DownRows(sig_genes.rows)
        selUp == UpRows(top_genes.rows)
        selDown == DownRows(top_genes.rows)
    IN /\ Len(selUp) = Min(k, Len(ups))
       /\ Len(selDown) = Min(k, Len(downs))
       /\ Elements(selUp) \subseteq Elements(ups)
       /\ Elements(selDown) \subseteq Elements(downs)
       /\ Cardinality(IndexSet(selUp)) = Len(selUp)
       /\ Cardinality(IndexSet(selDown)) = Len(selDown)
       /\ \A u \in Elements(selUp) : \A r \in Elements(ups) \ Elements(selUp) :
            \/ r.Gene_log2FC[1] * u.Gene_log2FC[2] < u.Gene_log2FC[1] * r.Gene_log2FC[2]
            \/ r.Gene_log2FC = u.Gene_log2FC /\ u.index < r.index
       /\ \A d \in Elements(selDown) : \A r \in Elements(downs) \ Elements(selDown) :
            \/ d.Gene_log2FC[1] * r.Gene_log2FC[2] < r.Gene_log2FC[1] * d.Gene_log2FC[2]
            \/ r.Gene_log2FC = d.Gene_log2FC /\ d.index < r.index

\* Two up rows tie at the boundary and one of them is cut, while the down
\* direction has fewer rows than N div 2.
C2_Witness ==
  /\ pc = "selected"
  /\ \E u \in Elements(UpRows(top_genes.rows)) :
       \E r \in Elements(UpRows(sig_genes.rows)) \ Elements(top_genes.rows) :
         r.Gene_log2FC = u.Gene_log2FC
  /\ Len(DownRows(sig_genes.rows)) < top_genes_count \div 2

\* C3: top_genes has at most N rows, at most N - 1 when N is odd, and no row
\* twice.
C3_TopNSize ==
  Selected =>
    /\ Len(top_genes.rows) <= top_genes_count
    /\ top_genes_count % 2 = 1 => Len(top_genes.rows) <= top_genes_count - 1
    /\ Cardinality(IndexSet(top_genes.rows)) = Len(top_genes.rows)

\* An odd N >= 3 whose N - 1 places are all taken, with a significant row cut.
C3_Witness ==
  /\ pc = "selected"
  /\ top_genes_count % 2 = 1
  /\ top_genes_count >= 3
  /\ Len(top_genes.rows) = top_genes_count - 1
  /\ Len(sig_genes.rows) > Len(top_genes.rows)

\* C4: no edge of the aggregated flow graph has its source label equal to its
\* target label, nor source_idx equal to target_idx.
C4_NoSelfLoop ==
  Indexed =>
    \A e \in Elements(flows_agg) :
      e.source # e.target /\ e.source_idx # e.target_idx

Sources == [i \in 1..Len(flows_agg) |-> flows_agg[i].source]

Targets == [i \in 1..Len(flows_agg) |-> flows_agg[i].target]

\* The position of the first occurrence of a label in a scan.
FirstPos(scan, label) ==
  CHOOSE i \in 1..Len(scan) : scan[i] = label /\ \A j \in 1..(i - 1) : scan[j] # label

\* all_nodes lists each label of the scan once, in order of first appearance,
\* and every edge's indices are those of its labels.
NodesFollow(scan) ==
  /\ Elements(all_nodes) = Elements(scan)
  /\ Cardinality(Elements(all_nodes)) = Len(all_nodes)
  /\ \A i, j \in 1..Len(all_nodes) :
       i < j => FirstPos(scan, all_nodes[i]) < FirstPos(scan, all_nodes[j])
  /\ DOMAIN node_dict = Elements(all_nodes)
  /\ \A k \in 1..Len(all_nodes) : node_dict[all_nodes[k]] = k - 1
  /\ \A e \in Elements(flows_agg) :
       /\ all_nodes[e.source_idx + 1] = e.source
       /\ all_nodes[e.target_idx + 1] = e.target

\* source of edge 1, target of edge 1, source of edge 2, target of edge 2, ...
EdgeByEdgeScan ==
  [i \in 1..(2 * Len(flows_agg)) |->
     IF i % 2 = 1 THEN flows_agg[(i + 1) \div 2].source
     ELSE flows_agg[i \div 2].target]

\* C5 as stated: indices follow the first appearances in an edge-by-edge scan.
C5_EdgeByEdgeOrder == Indexed => NodesFollow(EdgeByEdgeScan)

\* C5 amended: indices follow the first appearances in the scan of every
\* edge's source, in aggregated order, followed by every edge's target.
C5_SourcesThenTargets == Indexed => NodesFollow(Sources \o Targets)

\* Two edges or more, a label that is the target of one edge and the source of
\* another, and a node order that differs from the edge-by-edge one.
C5_Witness ==
  /\ pc = "nodes"
  /\ Len(flows_agg) >= 2
  /\ Elements(Sources) \cap Elements(Targets) # {}
  /\ all_nodes # Unique(EdgeByEdgeScan)

GeneId(r) == Cell(top_genes, r, gene_id_col)

\* Every row of top_genes has its own aggregated edge, weighted by its
\* |log2fc|, and there are as many such edges as rows.
GeneEdgesUntouched ==
  /\ \A r \in Elements(top_genes.rows) :
       \E e \in Elements(flows_agg) :
         /\ e.source = r.Direction
         /\ e.target = GeneId(r)
         /\ e.value = Magnitude(r.Gene_log2FC)
  /\ Cardinality({k \in 1..Len(flows_agg) :
                    \E r \in Elements(top_genes.rows) :
                      /\ flows_agg[k].source = r.Direction
                      /\ flows_agg[k].target = GeneId(r)})
       = Len(top_genes.rows)

DistinctGeneIds ==
  \A i, j \in 1..Len(top_genes.rows) :
    i # j => GeneId(top_genes.rows[i]) # GeneId(top_genes.rows[j])

NoLipidEdgeOnGeneEdge ==
  \A l \in Elements(sig_lipids.rows) : \A r \in Elements(top_genes.rows) :
    ~(l.Lipid_Class = r.Direction /\ l.Direction = GeneId(r))

\* C6 as stated: for every cleaned gene table no two rows of top_genes share
\* a target label and aggregation leaves the gene edges as they are.
C6_GeneEdgesAlwaysUntouched ==
  Aggregated => DistinctGeneIds /\ GeneEdgesUntouched

\* C6 amended: when the identifiers of top_genes are pairwise distinct and no
\* lipid edge has the (source, target) pair of a gene edge, aggregation leaves
\* the gene edges as they are.
C6_GeneEdgesUntouchedIfDistinct ==
  Aggregated /\ DistinctGeneIds /\ NoLipidEdgeOnGeneEdge => GeneEdgesUntouched

\* An up gene and a down gene with distinct identifiers beside a lipid edge.
C6_Witness ==
  /\ pc = "aggregated"
  /\ DistinctGeneIds
  /\ NoLipidEdgeOnGeneEdge
  /\ UpRows(top_genes.rows) # <<>>
  /\ DownRows(top_genes.rows) # <<>>
  /\ sig_lipids.rows # <<>>

\* C7: a run never raises.
C7_NeverRaises == pc # "error"

Artifacts == {s_Class, s_Label, s_Metabolite}

\* The cleaned frame holds exactly the rows of the file whose identifier is
\* neither null nor in the set, with their cells, in the file's order.
CleanedOf(df, file, dropped) ==
  /\ IndexSet(df.rows) =
       {i - 1 : i \in {j \in 1..Len(file.rows) :
                         file.rows[j][1] # <<>> /\ file.rows[j][1] \notin dropped}}
  /\ \A i \in 1..Len(df.rows) : df.rows[i].cells = file.rows[df.rows[i].index + 1]
  /\ \A i, j \in 1..Len(df.rows) : i < j => df.rows[i].index < df.rows[j].index

\* C8 as stated: in both cleaned tables no identifier is 'Class', 'Label',
\* 'Metabolite' or null, and every other row is retained in order.
C8_SameArtifactsForBoth ==
  Loaded =>
    /\ CleanedOf(transcriptome, transcriptome_file, Artifacts)
    /\ CleanedOf(lipid_data, lipid_file, Artifacts)

\* C8 amended: the gene table drops 'Class' and null identifiers, the lipid
\* table drops 'Label', 'Metabolite' and null identifiers; every other row is
\* retained in order.
C8_ArtifactsPerTable ==
  Loaded =>
    /\ CleanedOf(transcriptome, transcriptome_file, {s_Class})
    /\ CleanedOf(lipid_data, lipid_file, {s_Label, s_Metabolite})

\* A lipid file with a 'Metabolite' row and a row that stays.
C8_Witness ==
  /\ pc = "loaded"
  /\ \E i \in 1..Len(lipid_file.rows) : lipid_file.rows[i][1] = s_Metabolite
  /\ Len(lipid_data.rows) = 1

\* C9: the colour of the node at index k is that of the first rule its label
\* matches, and the colour list is as long as the node list.
C9_NodeColors ==
  Colored =>
    /\ Len(node_colors) = Len(all_nodes)
    /\ \A k \in 1..Len(all_nodes) :
         LET n == all_nodes[k]
             c == node_colors[k]
             up == Contains(n, s_Upregulated)
             down == Contains(n, s_Downregulated)
             r3 == n \in {s_PC, s_LPC, s_PE, s_LPE}
             r4 == n \in {s_DG, s_TG}
             r5 == n \in {s_SM, s_CAR}
         IN /\ up => c = warm_red
            /\ ~up /\ down => c = cool_blue
            /\ ~up /\ ~down /\ r3 => c = orange
            /\ ~up /\ ~down /\ ~r3 /\ r4 => c = green
            /\ ~up /\ ~down /\ ~r3 /\ ~r4 /\ r5 => c = purple
            /\ ~up /\ ~down /\ ~r3 /\ ~r4 /\ ~r5 => c = neutral_gray

\* The nodes of a lipid class, both directions and a gene, and a label that
\* matches the first two rules.
C9_Witness ==
  /\ pc = "colored"
  /\ {warm_red, cool_blue, orange, neutral_gray} \subseteq Elements(node_colors)
  /\ \E k \in 1..Len(all_nodes) :
       /\ Contains(all_nodes[k], s_Upregulated)
       /\ Contains(all_nodes[k], s_Downregulated)
       /\ node_colors[k] = warm_red

\* C10: for thresholds >= 0 the significant count is the sum of the up and
\* down counts and at most the total, the up and down counts are the numbers
\* of significant rows labelled 'Upregulated_White' and 'Downregulated_White',
\* and the gene counts are those of all significant genes.
C10_SummaryConsistent ==
  pc = "done" /\ gene_fc_threshold >= 0 /\ lipid_fc_threshold >= 0 =>
    /\ summary.Significant_Genes = summary.Genes_Up_White + summary.Genes_Down_White
    /\ summary.Significant_Lipids = summary.Lipids_Up_White + summary.Lipids_Down_White
    /\ summary.Significant_Genes <= summary.Total_Genes
    /\ summary.Significant_Lipids <= summary.Total_Lipids
    /\ summary.Genes_Up_White =
         Cardinality({i \in 1..Len(sig_genes.rows) :
                        sig_genes.rows[i].Direction = s_Upregulated_White})
    /\ summary.Genes_Down_White =
         Cardinality({i \in 1..Len(sig_genes.rows) :
                        sig_genes.rows[i].Direction = s_Downregulated_White})
    /\ summary.Lipids_Up_White =
         Cardinality({i \in 1..Len(sig_lipids.rows) :
                        sig_lipids.rows[i].Direction = s_Upregulated_White})
    /\ summary.Lipids_Down_White =
         Cardinality({i \in 1..Len(sig_lipids.rows) :
                        sig_lipids.rows[i].Direction = s_Downregulated_White})
    /\ summary.Significant_Genes = Len(sig_genes.rows)
    /\ summary.Total_Genes = Len(transcriptome.rows)

\* More significant genes than displayed ones, in both directions.
C10_Witness ==
  /\ pc = "done"
  /\ Len(top_genes.rows) < Len(sig_genes.rows)
  /\ summary.Genes_Up_White > 0
  /\ summary.Genes_Down_White > 0

====
